---- MODULE Spec2Model ----
(***************************************************************************)
(* HubSpot OAuth2 connector (backend/integrations/hubspot.py).             *)
(*                                                                         *)
(* The request handlers run in worker threads (Procs).  A handler that     *)
(* calls the token endpoint is split at the blocking HTTP call: the steps  *)
(* before the POST are one action, the steps after the response another,   *)
(* so other requests and the clock may move in between.  Redis is one map  *)
(* from keys to entries with an optional time-to-live.  The clock counts   *)
(* whole seconds.  Query parameters and JSON strings are None or non-empty.*)
(***************************************************************************)
EXTENDS Integers, Sequences, FiniteSets, TLC

VARIABLES now, redis, redisUp, uuids, minted, pc, call, job,
          history    \* what happened before; read by no handler

vars == <<now, redis, redisUp, uuids, minted, pc, call, job, history>>

(* ------------------------------ bounds -------------------------------- *)
MaxTime == 300
MaxMint == 2
MaxResults == 1

Procs == {"w1", "w2"}
Tenants == {"acme"}
StateTokens == {"u1"}
Codes == {"c1"}
Errors == {"access_denied"}
ExpiresIns == {59, 60}
Scopes == {"crm"}
ErrBodies == {"BAD_GRANT"}
TickSteps == {300}

(* --------------------------- program constants ------------------------ *)
None == "None"
HUBSPOT_CLIENT_ID == "client_id"
REDIS_PREFIX == "integration:hubspot:"
HUBSPOT_REDIRECT_URI == "redirect_uri"
HUBSPOT_CLIENT_SECRET == "secret"
DefaultHubDomain == "unknown"
StateTTL == 300
RefreshMargin == 60

(* dict.get(k, default) on a JSON object modelled as a function *)
Get(d, k, default) == IF k \in DOMAIN d THEN d[k] ELSE default

(* Python truthiness of an optional string *)
Truthy(v) == v # None /\ v # ""

(* f"{REDIS_PREFIX}state:{state}" and f"{REDIS_PREFIX}tokens:{hub_domain}" *)
StateKey(state) == <<REDIS_PREFIX, "state", state>>
TokenKey(hub_domain) == <<REDIS_PREFIX, "tokens", hub_domain>>

(* key.split(":")[-1] *)
LastSegment(key) == key[Len(key)]

(* ------------------------------- redis -------------------------------- *)
(* SET key value [EX seconds]: overwrites the entry and its time-to-live *)
RedisSet(r, key, value, ex) ==
    (key :> [value |-> value, ttl |-> IF ex = <<>> THEN <<>> ELSE <<now + ex[1]>>]) @@ r

(* GET key: the value in a set, empty when the key does not exist *)
RedisGet(r, key) == IF key \in DOMAIN r THEN {r[key].value} ELSE {}

(* KEYS f"{REDIS_PREFIX}tokens:*" *)
RedisKeys(r) == {k \in DOMAIN r : k[1] = REDIS_PREFIX /\ k[2] = "tokens"}

(* entries whose time-to-live has run out at time t are gone *)
Purge(r, t) ==
    LET live == {k \in DOMAIN r : r[k].ttl = <<>> \/ r[k].ttl[1] > t}
    IN  [k \in live |-> r[k]]

(* --------------------------- call records ----------------------------- *)
NoResult == [kind |-> "pending", status |-> 0, error |-> None, details |-> None,
             ret |-> {}]

IdleCall == [op |-> "none", code |-> None, state |-> None, error |-> None,
             hub_domain |-> None, key |-> <<>>, tokens |-> {}, st |-> {},
             posts |-> <<>>, reply |-> <<>>, writes |-> <<>>, t0 |-> 0,
             result |-> NoResult]

JSONResponse(status, error, details) ==
    [kind |-> "json", status |-> status, error |-> error, details |-> details,
     ret |-> {}]

RedirectResponse(url, state) ==
    [kind |-> "redirect", status |-> 307, error |-> None, details |-> url,
     ret |-> IF state = None THEN {} ELSE {state}]

Raise(exc, msg) ==
    [kind |-> "raise", status |-> 0, error |-> exc, details |-> msg, ret |-> {}]

Return(tokens) ==
    [kind |-> "return", status |-> 0, error |-> None, details |-> None,
     ret |-> {tokens}]

(* writes are [key, value, ex]; a handler's writes are applied in order *)
RECURSIVE ApplyWrites(_, _)
ApplyWrites(r, ws) ==
    IF ws = <<>> THEN r
    ELSE ApplyWrites(RedisSet(r, ws[1].key, ws[1].value, ws[1].ex), Tail(ws))

(* ------------------------------ issuer -------------------------------- *)
AccessToken(n) == "at" \o ToString(n)
RefreshToken(n) == "rt" \o ToString(n)

Opt(k, vals) == {<<>>} \cup {k :> v : v \in vals}

(* the JSON bodies of the n-th grant.  A code exchange returns access_token,  *)
(* refresh_token and scope; expires_in and hub_domain may be left out.       *)
ExchangePayloads(n) ==
    {("access_token" :> AccessToken(n)) @@ ("refresh_token" :> RefreshToken(n))
        @@ ei @@ hd @@ sc :
        ei \in Opt("expires_in", ExpiresIns),
        hd \in Opt("hub_domain", Tenants),
        sc \in {"scope" :> x : x \in Scopes}}

(* a refresh returns access_token; the rest may be left out *)

RefreshPayloads(n) ==
    {("access_token" :> AccessToken(n)) @@ rt @@ ei @@ sc :
        rt \in Opt("refresh_token", {RefreshToken(n)}),
        ei \in Opt("expires_in", ExpiresIns),
        sc \in Opt("scope", Scopes)}

OkReply(payload) == [status_code |-> 200, text |-> "OK", json |-> payload]
ErrReply(status, body) == [status_code |-> status, text |-> body, json |-> <<>>]
ErrReplies == {ErrReply(400, b) : b \in ErrBodies}

(* ------------------------- authorize_hubspot -------------------------- *)
(* str(uuid.uuid4()): a value never drawn before; which one does not matter *)
uuid4 == CHOOSE u \in StateTokens \ uuids : TRUE

authorize_call(client_id, state, up) ==
    IF ~Truthy(client_id)
    THEN [IdleCall EXCEPT !.op = "authorize",
            !.result = JSONResponse(500, "HUBSPOT_CLIENT_ID not configured", None)]
    ELSE [IdleCall EXCEPT !.op = "authorize",
            !.writes = IF up
                       THEN <<[key |-> StateKey(state), value |-> "1", ex |-> <<StateTTL>>]>>
                       ELSE <<>>,
            !.result = RedirectResponse("authorize", state)]

(* ----------------------- oauth2callback_hubspot ----------------------- *)
ExchangeRequest(client_id, code) ==
    [grant_type |-> "authorization_code", client_id |-> client_id,
     client_secret |-> HUBSPOT_CLIENT_SECRET, redirect_uri |-> HUBSPOT_REDIRECT_URI,
     code |-> code, refresh_token |-> None]

(* faulty variant: the code check comes before the error check *)
oauth2callback_call_CodeFirst(client_id, code, state, error, r, up) ==
    LET c0 == [IdleCall EXCEPT !.op = "callback", !.code = code, !.state = state,
                               !.error = error]
    IN  IF ~Truthy(code)
        THEN [c0 EXCEPT !.result = JSONResponse(400, "missing_code", None)]
        ELSE IF Truthy(error)
        THEN [c0 EXCEPT !.result = JSONResponse(400, "hubspot_authorization_failed", error)]
        ELSE [c0 EXCEPT
                !.st = IF Truthy(state) /\ up THEN RedisGet(r, StateKey(state)) ELSE {},
                !.posts = <<ExchangeRequest(client_id, code)>>]

(* lines 95-123: up to the POST to the token endpoint *)
oauth2callback_call(client_id, code, state, error, r, up) ==
    LET c0 == [IdleCall EXCEPT !.op = "callback", !.code = code, !.state = state,
                               !.error = error]
    IN  IF Truthy(error)
        THEN [c0 EXCEPT !.result = JSONResponse(400, "hubspot_authorization_failed", error)]
        ELSE IF ~Truthy(code)
        THEN [c0 EXCEPT !.result = JSONResponse(400, "missing_code", None)]
        ELSE [c0 EXCEPT
                !.st = IF Truthy(state) /\ up THEN RedisGet(r, StateKey(state)) ELSE {},
                !.posts = <<ExchangeRequest(client_id, code)>>]

(* faulty variant: the lifetime is stored as sent, not added to the clock *)
SavedTokens_RelativeExpiry(token_payload, t) ==
    [access_token |-> Get(token_payload, "access_token", None),
     refresh_token |-> Get(token_payload, "refresh_token", None),
     expires_at |-> Get(token_payload, "expires_in", 0),
     hub_domain |-> Get(token_payload, "hub_domain", DefaultHubDomain),
     scope |-> Get(token_payload, "scope", None)]

(* lines 128-141: the record saved for the installation *)
SavedTokens(token_payload, t) ==
    LET expires_in == Get(token_payload, "expires_in", 0)
        hub_domain == Get(token_payload, "hub_domain", DefaultHubDomain)
    IN  [access_token |-> Get(token_payload, "access_token", None),
         refresh_token |-> Get(token_payload, "refresh_token", None),
         expires_at |-> t + expires_in,
         hub_domain |-> hub_domain,
         scope |-> Get(token_payload, "scope", None)]

(* faulty variant: the status of the answer is not looked at *)
oauth2callback_exchanged_NoStatusCheck(c, resp, t, up) ==
    LET c1 == [c EXCEPT !.reply = <<resp>>, !.t0 = t]
        saved == SavedTokens(resp.json, t)
        key == TokenKey(saved.hub_domain)
    IN  [c1 EXCEPT !.key = key,
            !.writes = <<[key |-> key, value |-> saved, ex |-> <<>>]>>,
            !.result = RedirectResponse("/?integrations=hubspot_connected", None)]

(* lines 124-150: after the token endpoint answered *)
oauth2callback_exchanged(c, resp, t, up) ==
    LET c1 == [c EXCEPT !.reply = <<resp>>, !.t0 = t]
    IN  IF resp.status_code # 200
        THEN [c1 EXCEPT !.result = JSONResponse(500, "token_exchange_failed", resp.text)]
        ELSE LET saved == SavedTokens(resp.json, t)
                 key == TokenKey(saved.hub_domain)
             IN  IF ~up
                 THEN [c1 EXCEPT !.key = key,
                         !.result = [JSONResponse(500, "redis_save_failed", None)
                                        EXCEPT !.ret = {saved}]]
                 ELSE [c1 EXCEPT !.key = key,
                         !.writes = <<[key |-> key, value |-> saved, ex |-> <<>>]>>,
                         !.result = RedirectResponse("/?integrations=hubspot_connected", None)]

(* ----------------------- get_hubspot_credentials ---------------------- *)
RefreshRequest(client_id, tokens) ==
    [grant_type |-> "refresh_token", client_id |-> client_id,
     client_secret |-> HUBSPOT_CLIENT_SECRET, redirect_uri |-> None,
     code |-> None, refresh_token |-> Get(tokens, "refresh_token", None)]

(* faulty variant: the margin is inclusive *)
NearExpiry_Inclusive(tokens, t) == Get(tokens, "expires_at", 0) - t <= RefreshMargin

(* line 181: expired, or will within 60 seconds *)
NearExpiry(tokens, t) == Get(tokens, "expires_at", 0) - t < RefreshMargin

(* faulty variant: an absent record is read as an empty one and refreshed *)
get_hubspot_credentials_lookup_NoAbsentCheck(c, client_id, hub_domain, r, up, t) ==
    LET key == TokenKey(hub_domain)
        raw == RedisGet(r, key)
        c1 == [c EXCEPT !.key = key, !.t0 = t]
        tokens == IF raw = {} THEN <<>> ELSE CHOOSE x \in raw : TRUE
    IN  IF NearExpiry(tokens, t)
        THEN [c1 EXCEPT !.tokens = raw, !.posts = <<RefreshRequest(client_id, tokens)>>]
        ELSE [c1 EXCEPT !.tokens = raw, !.result = Return(tokens)]

(* lines 174-190, once hub_domain is known *)
get_hubspot_credentials_lookup(c, client_id, hub_domain, r, up, t) ==
    LET key == TokenKey(hub_domain)
        raw == RedisGet(r, key)
        c1 == [c EXCEPT !.key = key, !.t0 = t]
    IN  IF ~up
        THEN [c1 EXCEPT !.result = Raise("ConnectionError", None)]
        ELSE IF raw = {}
        THEN [c1 EXCEPT !.result = Raise("RuntimeError", "No tokens for hub_domain")]
        ELSE LET tokens == CHOOSE x \in raw : TRUE
             IN  IF NearExpiry(tokens, t)
                 THEN [c1 EXCEPT !.tokens = raw,
                                 !.posts = <<RefreshRequest(client_id, tokens)>>]
                 ELSE [c1 EXCEPT !.tokens = raw, !.result = Return(tokens)]

(* lines 160-190: up to the POST to the token endpoint; first is keys[0] *)
get_hubspot_credentials_call(client_id, hub_domain, first, r, up, t) ==
    LET c0 == [IdleCall EXCEPT !.op = "credentials", !.hub_domain = hub_domain, !.t0 = t]
    IN  IF ~Truthy(hub_domain)
        THEN IF ~up \/ RedisKeys(r) = {}
             THEN [c0 EXCEPT !.result = Raise("RuntimeError", "No stored HubSpot credentials")]
             ELSE get_hubspot_credentials_lookup(c0, client_id, LastSegment(first), r, up, t)
        ELSE get_hubspot_credentials_lookup(c0, client_id, hub_domain, r, up, t)

(* faulty variant: expires_at is not recomputed *)
RefreshedTokens_StaleExpiry(tokens, new, t) ==
    [tokens EXCEPT
        !.access_token = Get(new, "access_token", None),
        !.refresh_token = Get(new, "refresh_token", Get(tokens, "refresh_token", None)),
        !.scope = Get(new, "scope", Get(tokens, "scope", None))]

(* faulty variant: a refresh_token left out of the answer is stored as None *)
RefreshedTokens_NoFallback(tokens, new, t) ==
    [tokens EXCEPT
        !.access_token = Get(new, "access_token", None),
        !.refresh_token = Get(new, "refresh_token", None),
        !.expires_at = t + Get(new, "expires_in", 0),
        !.scope = Get(new, "scope", Get(tokens, "scope", None))]

(* lines 194-197: the record after a successful refresh *)
RefreshedTokens(tokens, new, t) ==
    [tokens EXCEPT
        !.access_token = Get(new, "access_token", None),
        !.refresh_token = Get(new, "refresh_token", Get(tokens, "refresh_token", None)),
        !.expires_at = t + Get(new, "expires_in", 0),
        !.scope = Get(new, "scope", Get(tokens, "scope", None))]

(* faulty variant: the record is updated and persisted before the status is looked at *)
get_hubspot_credentials_refreshed_PersistFirst(c, resp, t, up) ==
    LET old == CHOOSE x \in c.tokens : TRUE
        tokens == RefreshedTokens(old, resp.json, t)
        c1 == [c EXCEPT !.reply = <<resp>>, !.t0 = t,
                        !.writes = <<[key |-> c.key, value |-> tokens, ex |-> <<>>]>>]
    IN  IF resp.status_code # 200
        THEN [c1 EXCEPT !.result = Raise("RuntimeError", "Failed refreshing token: " \o resp.text)]
        ELSE [c1 EXCEPT !.result = Return(tokens)]

(* faulty variant: the record is written under the key of the hub_domain argument *)
get_hubspot_credentials_refreshed_ArgumentKey(c, resp, t, up) ==
    LET c1 == [c EXCEPT !.reply = <<resp>>, !.t0 = t]
        old == CHOOSE x \in c.tokens : TRUE
    IN  IF resp.status_code # 200
        THEN [c1 EXCEPT !.result = Raise("RuntimeError", "Failed refreshing token: " \o resp.text)]
        ELSE LET tokens == RefreshedTokens(old, resp.json, t)
             IN  IF ~up
                 THEN [c1 EXCEPT !.result = Raise("ConnectionError", None)]
                 ELSE [c1 EXCEPT
                         !.writes = <<[key |-> TokenKey(c.hub_domain), value |-> tokens,
                                       ex |-> <<>>]>>,
                         !.result = Return(tokens)]

(* faulty variant: the answer is merged into the record found in the store now *)
get_hubspot_credentials_refreshed_Reread(c, resp, t, up) ==
    LET c1 == [c EXCEPT !.reply = <<resp>>, !.t0 = t]
        old == IF c.key \in DOMAIN redis THEN redis[c.key].value
               ELSE CHOOSE x \in c.tokens : TRUE
    IN  IF resp.status_code # 200
        THEN [c1 EXCEPT !.result = Raise("RuntimeError", "Failed refreshing token: " \o resp.text)]
        ELSE LET tokens == RefreshedTokens(old, resp.json, t)
             IN  IF ~up
                 THEN [c1 EXCEPT !.result = Raise("ConnectionError", None)]
                 ELSE [c1 EXCEPT
                         !.writes = <<[key |-> c.key, value |-> tokens, ex |-> <<>>]>>,
                         !.result = Return(tokens)]

(* faulty variant: the record is written under the key of the default hub_domain *)
get_hubspot_credentials_refreshed_DefaultKey(c, resp, t, up) ==
    LET c1 == [c EXCEPT !.reply = <<resp>>, !.t0 = t]
        old == CHOOSE x \in c.tokens : TRUE
    IN  IF resp.status_code # 200
        THEN [c1 EXCEPT !.result = Raise("RuntimeError", "Failed refreshing token: " \o resp.text)]
        ELSE LET tokens == RefreshedTokens(old, resp.json, t)
             IN  IF ~up
                 THEN [c1 EXCEPT !.result = Raise("ConnectionError", None)]
                 ELSE [c1 EXCEPT
                         !.writes = <<[key |-> TokenKey(DefaultHubDomain), value |-> tokens,
                                       ex |-> <<>>]>>,
                         !.result = Return(tokens)]

(* lines 191-200: after the token endpoint answered the refresh *)
get_hubspot_credentials_refreshed(c, resp, t, up) ==
    LET c1 == [c EXCEPT !.reply = <<resp>>, !.t0 = t]
        old == CHOOSE x \in c.tokens : TRUE
    IN  IF resp.status_code # 200
        THEN [c1 EXCEPT !.result = Raise("RuntimeError", "Failed refreshing token: " \o resp.text)]
        ELSE LET tokens == RefreshedTokens(old, resp.json, t)
             IN  IF ~up
                 THEN [c1 EXCEPT !.result = Raise("ConnectionError", None)]
                 ELSE [c1 EXCEPT
                         !.writes = <<[key |-> c.key, value |-> tokens, ex |-> <<>>]>>,
                         !.result = Return(tokens)]

(* -------------------------- get_items_hubspot ------------------------- *)
(* x or y *)
Or(x, y) == IF Truthy(x) THEN x ELSE y

(* f"{a} {b}".strip(), for a and b without blanks of their own *)
JoinStrip(a, b) ==
    IF a = "" /\ b = "" THEN ""
    ELSE IF a = "" THEN b
    ELSE IF b = "" THEN a
    ELSE a \o " " \o b

(* faulty variant: the id is the raw id alone *)
ItemId_RawOnly(type, id) == id

(* f"contact:{c.get('id')}", f"company:{...}", f"deal:{...}" *)
ItemId(type, id) == type \o ":" \o id

(* lines 229-244 *)
ContactItem(c) ==
    LET props == Get(c, "properties", <<>>)
    IN  [id |-> ItemId("contact", Get(c, "id", None)),
         title |-> Or(Get(props, "email", None),
                      JoinStrip(Get(props, "firstname", ""), Get(props, "lastname", ""))),
         type |-> "contact",
         parameters |-> [hubspot_id |-> Get(c, "id", None),
                         email |-> Get(props, "email", None),
                         firstname |-> Get(props, "firstname", None),
                         lastname |-> Get(props, "lastname", None),
                         phone |-> Get(props, "phone", None)]]

(* lines 252-265 *)
CompanyItem(comp) ==
    LET props == Get(comp, "properties", <<>>)
    IN  [id |-> ItemId("company", Get(comp, "id", None)),
         title |-> Or(Get(props, "name", None),
                      Or(Get(props, "domain", None), "Company " \o Get(comp, "id", None))),
         type |-> "company",
         parameters |-> [hubspot_id |-> Get(comp, "id", None),
                         name |-> Get(props, "name", None),
                         domain |-> Get(props, "domain", None),
                         phone |-> Get(props, "phone", None)]]

(* lines 272-285 *)
DealItem(d) ==
    LET props == Get(d, "properties", <<>>)
    IN  [id |-> ItemId("deal", Get(d, "id", None)),
         title |-> Or(Get(props, "dealname", None), "Deal " \o Get(d, "id", None)),
         type |-> "deal",
         parameters |-> [hubspot_id |-> Get(d, "id", None),
                         dealname |-> Get(props, "dealname", None),
                         amount |-> Get(props, "amount", None),
                         dealstage |-> Get(props, "dealstage", None)]]

(* the loop body of each of the three blocks *)
ItemOf(obj, rec) ==
    IF obj = "contacts" THEN ContactItem(rec)
    ELSE IF obj = "companies" THEN CompanyItem(rec)
    ELSE DealItem(rec)

(* the block that follows the block of obj; after deals the list is returned *)
After(obj) ==
    IF obj = "contacts" THEN "companies" ELSE IF obj = "companies" THEN "deals" ELSE "done"

(* the raw records the list endpoints may return *)
RawIds == {"42", "7"}
RawContacts ==
    {[id |-> i, properties |-> em @@ fn @@ ln] :
        i \in {"42"},
        em \in Opt("email", {"ann@acme.io"}),
        fn \in Opt("firstname", {"Ann"}),
        ln \in Opt("lastname", {"Lee"})}
RawCompanies ==
    {[id |-> i, properties |-> nm @@ dm] :
        i \in {"42"}, nm \in Opt("name", {"Acme"}), dm \in Opt("domain", {"acme.io"})}
RawDeals ==
    {[id |-> i, properties |-> dn] : i \in RawIds, dn \in Opt("dealname", {"Big"})}
RawRecords(obj) ==
    IF obj = "contacts" THEN RawContacts
    ELSE IF obj = "companies" THEN RawCompanies
    ELSE RawDeals

(* the "results" arrays of a page: up to MaxResults records *)
Results(obj) == UNION {[1..n -> RawRecords(obj)] : n \in 0..MaxResults}

IdleJob == [pc |-> "idle", cred |-> IdleCall, access_token |-> None,
            requests |-> <<>>, items |-> <<>>]

(* line 209-211: the credentials call returned or raised *)
items_credentials(j, c) ==
    IF c.result.kind = "pending" THEN [j EXCEPT !.pc = "refresh", !.cred = c]
    ELSE IF c.result.kind = "raise" THEN [j EXCEPT !.pc = "raised", !.cred = c]
    ELSE [j EXCEPT !.pc = "contacts", !.cred = IdleCall,
                   !.access_token = (CHOOSE t \in c.result.ret : TRUE).access_token]

(* lines 221-224 and the loop: the list request of block obj answered 200 *)
RECURSIVE AppendItems(_, _, _)
AppendItems(items, obj, results) ==
    IF results = <<>> THEN items
    ELSE AppendItems(Append(items, ItemOf(obj, Head(results))), obj, Tail(results))

fetch_objects_ok(j, obj, results) ==
    [j EXCEPT !.pc = After(obj),
              !.requests = Append(@, [obj |-> obj, token |-> j.access_token,
                                      status_code |-> 200, results |-> results]),
              !.items = AppendItems(@, obj, results)]

(* faulty variant: the exception of a failed list request is not caught *)
fetch_objects_failed_Abort(j, obj, status) ==
    [j EXCEPT !.pc = "raised",
              !.requests = Append(@, [obj |-> obj, token |-> j.access_token,
                                      status_code |-> status, results |-> <<>>])]

(* raise_for_status() raised inside the try: the except prints and goes on *)
fetch_objects_failed(j, obj, status) ==
    [j EXCEPT !.pc = After(obj),
              !.requests = Append(@, [obj |-> obj, token |-> j.access_token,
                                      status_code |-> status, results |-> <<>>])]

(* ------------------------------- Init --------------------------------- *)
(* ------------------------------ history ------------------------------- *)
(* rejected holds the token keys for which the issuer rejected a refresh    *)
(* and no code exchange has stored a record since; late holds the workers   *)
(* whose running get_hubspot_credentials call started after such a          *)
(* rejection of the key it reads.  Nothing is noted unless recording is on. *)
NoHistory == [recording |-> FALSE, rejected |-> {}, late |-> {}]

Noted(h) == IF history.recording THEN h ELSE history

WrittenKeys(c) == {c.writes[i].key : i \in 1..Len(c.writes)}

Init ==
    /\ now = 0
    /\ redis = <<>>
    /\ redisUp = TRUE
    /\ uuids = {}
    /\ minted = 0
    /\ pc = [p \in Procs |-> "idle"]
    /\ call = [p \in Procs |-> IdleCall]
    /\ job = IdleJob
    /\ history = NoHistory

(* no response is waiting to be handed over *)
NoneDone == \A q \in Procs : pc[q] # "done"

(* the clock advances; redis drops the entries that expired meanwhile *)
Tick ==
    \E dt \in TickSteps :
        /\ NoneDone
        /\ now + dt <= MaxTime
        /\ now' = now + dt
        /\ redis' = Purge(redis, now + dt)
        /\ UNCHANGED <<redisUp, uuids, minted, pc, call, job, history>>

(* a handler step ends: either the handler is done or it waits for the issuer *)
Step(p, c, wait) ==
    /\ call' = [call EXCEPT ![p] = c]
    /\ redis' = ApplyWrites(redis, c.writes)
    /\ pc' = [pc EXCEPT ![p] = IF c.result.kind = "pending" THEN wait ELSE "done"]

authorize_hubspot(p) ==
    /\ pc[p] = "idle" /\ NoneDone
    /\ StateTokens \ uuids # {}
    /\ LET c == authorize_call(HUBSPOT_CLIENT_ID, uuid4, redisUp)
       IN  /\ Step(p, c, "idle")
           /\ uuids' = IF c.result.kind = "redirect" THEN uuids \cup {uuid4} ELSE uuids
    /\ UNCHANGED <<now, redisUp, minted, job, history>>

oauth2callback_hubspot(p) ==
    /\ pc[p] = "idle" /\ NoneDone
    /\ \E code \in Codes \cup {None}, state \in StateTokens \cup {None},
          error \in Errors \cup {None} :
        Step(p, oauth2callback_call(HUBSPOT_CLIENT_ID, code, state, error, redis, redisUp),
             "exchange")
    /\ UNCHANGED <<now, redisUp, uuids, minted, job, history>>

oauth2callback_hubspot_ok(p) ==
    /\ pc[p] = "exchange" /\ NoneDone
    /\ minted < MaxMint
    /\ \E payload \in ExchangePayloads(minted + 1) :
        Step(p, oauth2callback_exchanged(call[p], OkReply(payload), now, redisUp), "idle")
    /\ minted' = minted + 1
    /\ history' = Noted([history EXCEPT
                            !.rejected = @ \ WrittenKeys(call'[p]),
                            !.late = {q \in @ : call[q].key \notin WrittenKeys(call'[p])}])
    /\ UNCHANGED <<now, redisUp, uuids, job>>

oauth2callback_hubspot_failed(p) ==
    /\ pc[p] = "exchange" /\ NoneDone
    /\ \E resp \in ErrReplies :
        Step(p, oauth2callback_exchanged(call[p], resp, now, redisUp), "idle")
    /\ UNCHANGED <<now, redisUp, uuids, minted, job, history>>

get_hubspot_credentials(p) ==
    /\ pc[p] = "idle" /\ NoneDone
    /\ \E hub_domain \in Tenants \cup {DefaultHubDomain, None},
          first \in IF RedisKeys(redis) = {} THEN {<<None>>} ELSE RedisKeys(redis) :
        Step(p, get_hubspot_credentials_call(HUBSPOT_CLIENT_ID, hub_domain, first, redis,
                                             redisUp, now), "refresh")
    /\ history' = Noted([history EXCEPT
                            !.late = IF call'[p].key \in history.rejected
                                     THEN @ \cup {p} ELSE @])
    /\ UNCHANGED <<now, redisUp, uuids, minted, job>>

get_hubspot_credentials_ok(p) ==
    /\ pc[p] = "refresh" /\ NoneDone
    /\ minted < MaxMint
    /\ \E payload \in RefreshPayloads(minted + 1) :
        Step(p, get_hubspot_credentials_refreshed(call[p], OkReply(payload), now, redisUp),
             "idle")
    /\ minted' = minted + 1
    /\ UNCHANGED <<now, redisUp, uuids, job, history>>

get_hubspot_credentials_failed(p) ==
    /\ pc[p] = "refresh" /\ NoneDone
    /\ \E resp \in ErrReplies :
        Step(p, get_hubspot_credentials_refreshed(call[p], resp, now, redisUp), "idle")
    /\ history' = Noted([history EXCEPT !.rejected = @ \cup {call[p].key}])
    /\ UNCHANGED <<now, redisUp, uuids, minted, job>>

(* the response has been handed to the caller; the worker is free again *)
Respond(p) ==
    /\ pc[p] = "done"
    /\ pc' = [pc EXCEPT ![p] = "idle"]
    /\ call' = [call EXCEPT ![p] = IdleCall]
    /\ history' = Noted([history EXCEPT !.late = @ \ {p}])
    /\ UNCHANGED <<now, redis, redisUp, uuids, minted, job>>

Next ==
    \/ Tick
    \/ \E p \in Procs :
        \/ authorize_hubspot(p)
        \/ oauth2callback_hubspot(p)
        \/ oauth2callback_hubspot_ok(p)
        \/ oauth2callback_hubspot_failed(p)
        \/ get_hubspot_credentials(p)
        \/ get_hubspot_credentials_ok(p)
        \/ get_hubspot_credentials_failed(p)
        \/ Respond(p)

Spec == Init /\ [][Next]_vars

(* the connection to redis is lost: every command raises until it is back *)
StoreDown ==
    /\ NoneDone
    /\ redisUp
    /\ redisUp' = FALSE
    /\ UNCHANGED <<now, redis, uuids, minted, pc, call, job, history>>

StoreUp ==
    /\ NoneDone
    /\ ~redisUp
    /\ redisUp' = TRUE
    /\ UNCHANGED <<now, redis, uuids, minted, pc, call, job, history>>

NextOutage ==
    \/ Next
    \/ StoreDown
    \/ StoreUp

(* the same program next to a redis that comes and goes *)
SpecOutage == Init /\ [][NextOutage]_vars

(* the same program after two installations: the callback has stored a     *)
(* record for acme and, from an answer without hub_domain, one under       *)
(* "unknown"; the grants made before the start are numbered 0 and -1       *)
InstalledBoth ==
    {RedisSet(RedisSet(<<>>, TokenKey(DefaultHubDomain), SavedTokens(pu, 0), <<>>),
              TokenKey(SavedTokens(pa, 0).hub_domain), SavedTokens(pa, 0), <<>>) :
        pa \in {pl \in ExchangePayloads(0) : "hub_domain" \in DOMAIN pl},
        pu \in {pl \in ExchangePayloads(0 - 1) :
                    "hub_domain" \notin DOMAIN pl /\ "expires_in" \notin DOMAIN pl}}

InitInstalled ==
    /\ now = 0
    /\ redis \in InstalledBoth
    /\ redisUp = TRUE
    /\ uuids = {}
    /\ minted = 0
    /\ pc = [p \in Procs |-> "idle"]
    /\ call = [p \in Procs |-> IdleCall]
    /\ job = IdleJob
    /\ history = NoHistory

(* only get_hubspot_credentials is called, by any worker at any time *)
NextCredentials ==
    \/ Tick
    \/ \E p \in Procs :
        \/ get_hubspot_credentials(p)
        \/ get_hubspot_credentials_ok(p)
        \/ get_hubspot_credentials_failed(p)
        \/ Respond(p)

SpecInstalled == InitInstalled /\ [][NextCredentials]_vars

(* the same program, with the history of rejected refreshes noted *)
InitHistory ==
    /\ now = 0
    /\ redis = <<>>
    /\ redisUp = TRUE
    /\ uuids = {}
    /\ minted = 0
    /\ pc = [p \in Procs |-> "idle"]
    /\ call = [p \in Procs |-> IdleCall]
    /\ job = IdleJob
    /\ history = [NoHistory EXCEPT !.recording = TRUE]

SpecHistory == InitHistory /\ [][Next]_vars

(* -------------------- actions of get_items_hubspot -------------------- *)
(* a store in which an installation is saved, as the callback leaves it *)
InstalledStores ==
    {<<>>} \cup
    {RedisSet(<<>>, TokenKey(SavedTokens(pl, 0).hub_domain), SavedTokens(pl, 0), <<>>) :
        pl \in ExchangePayloads(0)}

InitItems ==
    /\ now = 0
    /\ redis \in InstalledStores
    /\ redisUp = TRUE
    /\ uuids = {}
    /\ minted = 0
    /\ pc = [p \in Procs |-> "idle"]
    /\ call = [p \in Procs |-> IdleCall]
    /\ job = IdleJob
    /\ history = NoHistory

get_items_hubspot ==
    /\ job.pc = "idle"
    /\ \E hub_domain \in Tenants \cup {None},
          first \in IF RedisKeys(redis) = {} THEN {<<None>>} ELSE RedisKeys(redis) :
        job' = items_credentials(job,
                  get_hubspot_credentials_call(HUBSPOT_CLIENT_ID, hub_domain, first,
                                               redis, redisUp, now))
    /\ UNCHANGED <<now, redis, redisUp, uuids, minted, pc, call, history>>

get_items_refresh_ok ==
    /\ job.pc = "refresh"
    /\ minted < MaxMint
    /\ \E payload \in RefreshPayloads(minted + 1) :
        LET c == get_hubspot_credentials_refreshed(job.cred, OkReply(payload), now, redisUp)
        IN  /\ job' = items_credentials(job, c)
            /\ redis' = ApplyWrites(redis, c.writes)
    /\ minted' = minted + 1
    /\ UNCHANGED <<now, redisUp, uuids, pc, call, history>>

get_items_refresh_failed ==
    /\ job.pc = "refresh"
    /\ \E resp \in ErrReplies :
        job' = items_credentials(job,
                  get_hubspot_credentials_refreshed(job.cred, resp, now, redisUp))
    /\ history' = Noted([history EXCEPT !.rejected = @ \cup {job.cred.key}])
    /\ UNCHANGED <<now, redis, redisUp, uuids, minted, pc, call>>

get_items_fetch_ok ==
    /\ job.pc \in {"contacts", "companies", "deals"}
    /\ \E results \in Results(job.pc) : job' = fetch_objects_ok(job, job.pc, results)
    /\ UNCHANGED <<now, redis, redisUp, uuids, minted, pc, call, history>>

get_items_fetch_failed ==
    /\ job.pc \in {"contacts", "companies", "deals"}
    /\ job' = fetch_objects_failed(job, job.pc, 500)
    /\ UNCHANGED <<now, redis, redisUp, uuids, minted, pc, call, history>>

(* the list was returned, or the credentials call raised: the worker is free *)
get_items_return ==
    /\ job.pc \in {"done", "raised"}
    /\ job' = IdleJob
    /\ UNCHANGED <<now, redis, redisUp, uuids, minted, pc, call, history>>

NextItems ==
    \/ get_items_hubspot
    \/ get_items_refresh_ok
    \/ get_items_refresh_failed
    \/ get_items_fetch_ok
    \/ get_items_fetch_failed
    \/ get_items_return

SpecItems == InitItems /\ [][NextItems]_vars

(* ====================================================================== *)
(*                               properties                               *)
(* ====================================================================== *)

(* worker p takes the first step of a handler for operation op *)
Starts(p, op) == pc[p] = "idle" /\ pc'[p] # "idle" /\ call'[p].op = op

(* worker p takes the step after the token endpoint answered, and is done *)
Answered(p, at) == pc[p] = at /\ pc'[p] = "done"

(* worker p has finished a handler for op and holds its response *)
Done(p, op) == pc[p] = "done" /\ call[p].op = op

IssuerOk(c) == c.reply # <<>> /\ c.reply[1].status_code = 200
IssuerFailed(c) == c.reply # <<>> /\ c.reply[1].status_code # 200

(* the token record stored under key k *)
Stored(r, k) == r[k].value

(* C1: a get_hubspot_credentials call that finds a record with              *)
(* expires_at - now < 60 sends exactly one request to the token endpoint,   *)
(* a refresh_token grant carrying the stored refresh_token, and sends no    *)
(* second one; when the issuer answers 200, the record stored under the     *)
(* same key has expires_at = (time of the answer) + expires_in (0 when the  *)
(* answer carries none).                                                    *)
C1_RefreshOnceAndRecompute ==
    [][\A p \in Procs :
        /\ (/\ Starts(p, "credentials")
            /\ call'[p].key \in DOMAIN redis
            /\ Stored(redis, call'[p].key).expires_at - now < 60)
           => /\ pc'[p] = "refresh"
              /\ Len(call'[p].posts) = 1
              /\ call'[p].posts[1].grant_type = "refresh_token"
              /\ call'[p].posts[1].refresh_token
                    = Stored(redis, call'[p].key).refresh_token
        /\ Answered(p, "refresh")
           => /\ Len(call'[p].posts) = 1
              /\ call'[p].posts = call[p].posts
              /\ IssuerOk(call'[p])
                 => /\ call'[p].key = call[p].key
                    /\ call'[p].key \in DOMAIN redis'
                    /\ Stored(redis', call'[p].key).expires_at
                          = now + Get(call'[p].reply[1].json, "expires_in", 0)
                    /\ call'[p].result.kind = "return"
                    /\ call'[p].result.ret = {Stored(redis', call'[p].key)}
    ]_vars

(* a refresh went through: the issuer named an expires_in and the stored   *)
(* expiry is the time of the answer plus that value                        *)
C1_Witness ==
    \E p \in Procs :
        /\ Done(p, "credentials")
        /\ IssuerOk(call[p])
        /\ Len(call[p].posts) = 1
        /\ "expires_in" \in DOMAIN call[p].reply[1].json
        /\ now > 0
        /\ Stored(redis, call[p].key).expires_at = now + call[p].reply[1].json.expires_in

(* C2: a get_hubspot_credentials call that finds a record with              *)
(* expires_at - now >= 60 returns exactly that record, sends nothing to the *)
(* token endpoint and leaves the whole store as it was.                     *)
C2_FreshReturnedUnchanged ==
    [][\A p \in Procs :
        (/\ Starts(p, "credentials")
         /\ call'[p].key \in DOMAIN redis
         /\ Stored(redis, call'[p].key).expires_at - now >= 60)
        => /\ pc'[p] = "done"
           /\ call'[p].result.kind = "return"
           /\ call'[p].result.ret = {Stored(redis, call'[p].key)}
           /\ call'[p].posts = <<>>
           /\ call'[p].writes = <<>>
           /\ redis' = redis
    ]_vars

C2_Witness ==
    \E p \in Procs :
        /\ Done(p, "credentials")
        /\ call[p].result.kind = "return"
        /\ call[p].posts = <<>>
        /\ call[p].key \in DOMAIN redis
        /\ call[p].result.ret = {Stored(redis, call[p].key)}
        /\ Stored(redis, call[p].key).expires_at - now >= 60

(* C3: when the issuer answers the refresh with a non-200 status the call   *)
(* raises the refresh failure carrying the issuer's text, and neither step  *)
(* of the call writes to the store: redis is the same before and after.    *)
C3_RefreshFailureLeavesStore ==
    [][\A p \in Procs :
        /\ Starts(p, "credentials") => redis' = redis /\ call'[p].writes = <<>>
        /\ (Answered(p, "refresh") /\ IssuerFailed(call'[p]))
           => /\ call'[p].result.kind = "raise"
              /\ call'[p].result.error = "RuntimeError"
              /\ call'[p].result.details
                    = "Failed refreshing token: " \o call'[p].reply[1].text
              /\ call'[p].result.ret = {}
              /\ call'[p].writes = <<>>
              /\ redis' = redis
    ]_vars

(* a refresh was rejected and the record that was read is still the one stored *)
C3_Witness ==
    \E p \in Procs :
        /\ Done(p, "credentials")
        /\ IssuerFailed(call[p])
        /\ call[p].result.kind = "raise"
        /\ call[p].key \in DOMAIN redis
        /\ call[p].tokens = {Stored(redis, call[p].key)}

(* C4: a get_hubspot_credentials call for a hub_domain whose key is absent, *)
(* or without hub_domain while the store holds no token key, raises the     *)
(* no-credentials error, sends nothing to the token endpoint and writes     *)
(* nothing.                                                                 *)
C4_NoCredentials ==
    [][\A p \in Procs :
        (/\ Starts(p, "credentials")
         /\ \/ call'[p].hub_domain # None
               /\ <<REDIS_PREFIX, "tokens", call'[p].hub_domain>> \notin DOMAIN redis
            \/ call'[p].hub_domain = None
               /\ ~ \E k \in DOMAIN redis : k[2] = "tokens")
        => /\ pc'[p] = "done"
           /\ call'[p].result.kind = "raise"
           /\ call'[p].result.error = "RuntimeError"
           /\ call'[p].result.details
                 = (IF call'[p].hub_domain = None
                    THEN "No stored HubSpot credentials"
                    ELSE "No tokens for hub_domain")
           /\ call'[p].result.ret = {}
           /\ call'[p].posts = <<>>
           /\ call'[p].writes = <<>>
           /\ redis' = redis
    ]_vars

(* the explicit tenant has no record while another tenant has one *)
C4_Witness ==
    \E p \in Procs :
        /\ Done(p, "credentials")
        /\ call[p].hub_domain # None
        /\ <<REDIS_PREFIX, "tokens", call[p].hub_domain>> \notin DOMAIN redis
        /\ \E k \in DOMAIN redis : k[2] = "tokens"
        /\ call[p].result.details = "No tokens for hub_domain"

(* C5: the refresh request carries the refresh_token that was stored; after *)
(* a 200 answer the stored refresh_token is the answer's when it has one    *)
(* and the one that was read when it has none.                              *)
C5_RefreshTokenRotation ==
    [][\A p \in Procs :
        /\ (Starts(p, "credentials") /\ pc'[p] = "refresh")
           => /\ call'[p].tokens = {Stored(redis, call'[p].key)}
              /\ call'[p].posts[1].refresh_token
                    = Stored(redis, call'[p].key).refresh_token
        /\ (Answered(p, "refresh") /\ IssuerOk(call'[p]))
           => \A old \in call[p].tokens :
                LET new == call'[p].reply[1].json
                IN  Stored(redis', call[p].key).refresh_token
                        = IF "refresh_token" \in DOMAIN new
                          THEN new.refresh_token
                          ELSE old.refresh_token
    ]_vars

(* the issuer left refresh_token out and the old one is still stored *)
C5_Witness ==
    \E p \in Procs :
        /\ Done(p, "credentials")
        /\ IssuerOk(call[p])
        /\ "refresh_token" \notin DOMAIN call[p].reply[1].json
        /\ \E old \in call[p].tokens :
            /\ old.refresh_token # None
            /\ old.access_token # Stored(redis, call[p].key).access_token
            /\ Stored(redis, call[p].key).refresh_token = old.refresh_token

(* C6: when the issuer answers the code exchange with 200 at time T, the    *)
(* callback reports success and the store then holds, under the key of the  *)
(* payload's hub_domain ("unknown" when it names none), a record with the   *)
(* payload's access_token and refresh_token and expires_at = T + expires_in.*)
C6_ExchangeStoresRecord ==
    [][\A p \in Procs :
        (Answered(p, "exchange") /\ IssuerOk(call'[p]))
        => LET pl == call'[p].reply[1].json
               key == <<REDIS_PREFIX, "tokens", Get(pl, "hub_domain", "unknown")>>
           IN  /\ call'[p].result.kind = "redirect"
               /\ key \in DOMAIN redis'
               /\ Stored(redis', key).access_token = pl.access_token
               /\ Stored(redis', key).refresh_token = pl.refresh_token
               /\ Stored(redis', key).expires_at = now + Get(pl, "expires_in", 0)
    ]_vars

(* a callback succeeded at a time T > 0 with an expires_in in the answer *)
C6_Witness ==
    \E p \in Procs :
        /\ Done(p, "callback")
        /\ IssuerOk(call[p])
        /\ call[p].result.kind = "redirect"
        /\ now > 0
        /\ "expires_in" \in DOMAIN call[p].reply[1].json
        /\ Stored(redis, call[p].key).expires_at = now + call[p].reply[1].json.expires_in
        /\ Stored(redis, call[p].key).access_token = call[p].reply[1].json.access_token

(* C7: a callback with an error parameter answers 400 with the              *)
(* authorization failure, whatever code and state are, sends nothing to the *)
(* token endpoint and leaves the whole store as it was.                     *)
C7_ErrorParameterRejected ==
    [][\A p \in Procs :
        (Starts(p, "callback") /\ call'[p].error # None)
        => /\ pc'[p] = "done"
           /\ call'[p].result.kind = "json"
           /\ call'[p].result.status = 400
           /\ call'[p].result.error = "hubspot_authorization_failed"
           /\ call'[p].result.details = call'[p].error
           /\ call'[p].posts = <<>>
           /\ call'[p].writes = <<>>
           /\ redis' = redis
    ]_vars

(* a callback carried error together with a code and a state *)
C7_Witness ==
    \E p \in Procs :
        /\ Done(p, "callback")
        /\ call[p].error # None
        /\ call[p].code # None
        /\ call[p].state # None
        /\ call[p].result.status = 400

(* C8: a callback without error in which code or state is missing answers   *)
(* 400, attempts no code exchange and writes no token record.               *)
C8_MissingCodeOrStateRejected ==
    [][\A p \in Procs :
        (/\ Starts(p, "callback")
         /\ call'[p].error = None
         /\ (call'[p].code = None \/ call'[p].state = None))
        => /\ pc'[p] = "done"
           /\ call'[p].result.kind = "json"
           /\ call'[p].result.status = 400
           /\ call'[p].posts = <<>>
           /\ call'[p].writes = <<>>
           /\ redis' = redis
    ]_vars

(* C9: a callback stores a token record only if the state it carries was    *)
(* created by an earlier authorize call and was still in the store when the *)
(* callback looked it up.                                                   *)
C9_StateCheckedAtCallback ==
    \A p \in Procs :
        (Done(p, "callback") /\ call[p].writes # <<>>)
        => /\ call[p].state \in uuids
           /\ call[p].st # {}

(* C10: when the issuer answers the code exchange with a non-200 status the *)
(* callback returns token_exchange_failed carrying the issuer's body, and   *)
(* neither step of the callback writes to the store.                        *)
C10_ExchangeFailureLeavesStore ==
    [][\A p \in Procs :
        /\ Starts(p, "callback") => redis' = redis /\ call'[p].writes = <<>>
        /\ (Answered(p, "exchange") /\ IssuerFailed(call'[p]))
           => /\ call'[p].result.kind = "json"
              /\ call'[p].result.error = "token_exchange_failed"
              /\ call'[p].result.details = call'[p].reply[1].text
              /\ call'[p].result.status >= 400
              /\ call'[p].writes = <<>>
              /\ redis' = redis
    ]_vars

(* an exchange was rejected while a record of an earlier install is stored *)
C10_Witness ==
    \E p \in Procs :
        /\ Done(p, "callback")
        /\ IssuerFailed(call[p])
        /\ call[p].result.error = "token_exchange_failed"
        /\ call[p].result.details = call[p].reply[1].text
        /\ \E k \in DOMAIN redis : k[2] = "tokens"

(* the item type made from the records of a list endpoint *)
Singular(obj) ==
    IF obj = "contacts" THEN "contact" ELSE IF obj = "companies" THEN "company" ELSE "deal"

(* type and raw id of every record a list request brought back *)
Brought(rq) ==
    IF rq.status_code = 200
    THEN [i \in 1..Len(rq.results) |-> <<Singular(rq.obj), rq.results[i].id>>]
    ELSE <<>>

(* C11: whichever of the three list requests fail, get_items_hubspot makes  *)
(* all three in the order contacts, companies, deals, returns normally, and *)
(* the list holds exactly the items of the requests that succeeded, in that *)
(* order; it raises only when the credentials call raised, before any       *)
(* request.                                                                 *)
C11_FetchFailuresIsolated ==
    /\ job.pc = "raised" => job.requests = <<>>
    /\ job.pc = "done"
       => /\ [i \in 1..Len(job.requests) |-> job.requests[i].obj]
                = <<"contacts", "companies", "deals">>
          /\ [i \in 1..Len(job.items) |->
                <<job.items[i].type, job.items[i].parameters.hubspot_id>>]
                = Brought(job.requests[1]) \o Brought(job.requests[2])
                    \o Brought(job.requests[3])

(* companies answered 500, contacts and deals brought records, and the list *)
(* holds a contact and a deal and nothing else                              *)
C11_Witness ==
    /\ job.pc = "done"
    /\ job.requests[2].status_code # 200
    /\ job.requests[1].status_code = 200 /\ job.requests[1].results # <<>>
    /\ job.requests[3].status_code = 200 /\ job.requests[3].results # <<>>
    /\ Len(job.items) = 2
    /\ job.items[1].type = "contact" /\ job.items[2].type = "deal"

(* C16: the title of a contact item is the joined first and last name when  *)
(* one of them is non-empty, else the email when non-empty, else            *)
(* "Contact {id}"; it is never empty.                                       *)
C16_ContactTitle ==
    \A i \in 1..Len(job.items) :
        job.items[i].type = "contact"
        => LET pm == job.items[i].parameters
               fn == IF pm.firstname = None THEN "" ELSE pm.firstname
               ln == IF pm.lastname = None THEN "" ELSE pm.lastname
               name == IF fn # "" /\ ln # "" THEN fn \o " " \o ln ELSE fn \o ln
           IN  /\ job.items[i].title # ""
               /\ job.items[i].title
                     = (IF name # "" THEN name
                        ELSE IF pm.email # None /\ pm.email # "" THEN pm.email
                        ELSE "Contact " \o pm.hubspot_id)

(* C17: in the list of get_items_hubspot two items of different types have  *)
(* different ids, and two items with the same id have the same type and the *)
(* same raw id.                                                             *)
C17_ItemIdsDistinct ==
    \A i, k \in 1..Len(job.items) :
        /\ job.items[i].type # job.items[k].type => job.items[i].id # job.items[k].id
        /\ job.items[i].id = job.items[k].id
           => /\ job.items[i].type = job.items[k].type
              /\ job.items[i].parameters.hubspot_id = job.items[k].parameters.hubspot_id

(* a contact and a deal with the same raw id are both in the list *)
C17_Witness ==
    /\ job.pc = "done"
    /\ \E i, k \in 1..Len(job.items) :
        /\ job.items[i].type = "contact" /\ job.items[k].type = "deal"
        /\ job.items[i].parameters.hubspot_id = "42"
        /\ job.items[k].parameters.hubspot_id = "42"
        /\ job.items[i].id = "contact:42" /\ job.items[k].id = "deal:42"

(* C13: once the issuer has rejected a refresh for a tenant, no             *)
(* get_hubspot_credentials call that starts afterwards returns a token      *)
(* record for that tenant until a code exchange has stored a new one.       *)
C13_NoRecoveryAfterRejection ==
    [][\A p \in Procs :
        (/\ pc[p] # "done" /\ pc'[p] = "done"
         /\ call'[p].op = "credentials"
         /\ call'[p].result.kind = "return")
        => p \notin history'.late
    ]_vars

(* C12: an authorize_hubspot call made while the store is unreachable, so   *)
(* that the state cannot be written, answers with an error and not with the *)
(* redirect to the consent screen.                                          *)
C12_AuthorizeFailsWithoutStore ==
    \A p \in Procs :
        (Done(p, "authorize") /\ ~redisUp) => call[p].result.kind # "redirect"

(* C14: the store never holds two token records of one tenant: every record *)
(* lies under the key of its own hub_domain.  A callback that stores a      *)
(* record adds at most its own key and overwrites what was under it; a      *)
(* refresh writes only to the key it read and leaves the set of stored keys *)
(* as it was.                                                               *)
C14_OneRecordPerTenant ==
    [][/\ \A k \in RedisKeys(redis') : k = TokenKey(Stored(redis', k).hub_domain)
       /\ \A h \in Tenants \cup {DefaultHubDomain} :
            Cardinality({k \in RedisKeys(redis') : Stored(redis', k).hub_domain = h}) <= 1
       /\ \A p \in Procs :
            /\ (Answered(p, "exchange") /\ call'[p].writes # <<>>)
               => /\ RedisKeys(redis') = RedisKeys(redis) \cup {call'[p].key}
                  /\ Stored(redis', call'[p].key) = SavedTokens(call'[p].reply[1].json, now)
            /\ Starts(p, "credentials")
               => /\ redis' = redis
                  /\ pc'[p] = "refresh"
                     => call'[p].tokens = RedisGet(redis, call'[p].key)
            /\ Answered(p, "refresh")
               => /\ call'[p].key = call[p].key
                  /\ call[p].key \in RedisKeys(redis)
                  /\ WrittenKeys(call'[p]) \subseteq {call[p].key}
                  /\ DOMAIN redis' = DOMAIN redis
    ]_vars

(* a second callback for the same tenant has overwritten the record of the  *)
(* first: two grants, one key                                               *)
C14_Witness ==
    \E p \in Procs :
        /\ Done(p, "callback")
        /\ call[p].writes # <<>>
        /\ minted = 2
        /\ RedisKeys(redis) = {call[p].key}
        /\ Stored(redis, call[p].key).access_token = AccessToken(2)

(* C15: every stored token record carries a time-to-live, so that a record  *)
(* nobody comes back to is removed when it runs out.                        *)
C15_TokenRecordHasTTL ==
    \A k \in RedisKeys(redis) : redis[k].ttl # <<>>

(* C18: when several get_hubspot_credentials calls refresh the same record  *)
(* at once, every answer step leaves the set of keys as it was and either   *)
(* leaves the record as it was (always so when the issuer rejected) or      *)
(* replaces it as a whole by the record of that one call: each field comes  *)
(* from that call's own answer or from the record that call had read,       *)
(* whatever another call has stored in between.                             *)
C18_RefreshWritesWholeRecord ==
    [][\A p \in Procs :
        Answered(p, "refresh")
        => LET read == CHOOSE x \in call[p].tokens : TRUE
               new == call'[p].reply[1].json
               k == call[p].key
           IN  /\ DOMAIN redis' = DOMAIN redis
               /\ \A j \in DOMAIN redis : j # k => redis'[j] = redis[j]
               /\ IssuerFailed(call'[p]) => redis' = redis
               /\ IssuerOk(call'[p])
                  => /\ call'[p].result.ret = {Stored(redis', k)}
                     /\ Stored(redis', k).access_token = new.access_token
                     /\ Stored(redis', k).expires_at = now + Get(new, "expires_in", 0)
                     /\ Stored(redis', k).refresh_token
                            = Get(new, "refresh_token", read.refresh_token)
                     /\ Stored(redis', k).scope = Get(new, "scope", read.scope)
                     /\ Stored(redis', k).hub_domain = read.hub_domain
    ]_vars

(* two calls read the first record of acme, the issuer accepted both        *)
(* refreshes, and the second answer has replaced the record of the first    *)
C18_Witness ==
    \E p \in Procs :
        /\ Done(p, "credentials")
        /\ IssuerOk(call[p])
        /\ call[p].key = TokenKey("acme")
        /\ \E x \in call[p].tokens : x.access_token = AccessToken(0)
        /\ minted = 2
        /\ Stored(redis, TokenKey(DefaultHubDomain)).access_token = AccessToken(0 - 1)
        /\ Stored(redis, TokenKey("acme")).access_token = AccessToken(2)
        /\ call[p].result.ret = {Stored(redis, TokenKey("acme"))}

(* C19: every token record that get_hubspot_credentials returns is still    *)
(* valid at the time it is returned: now < expires_at.                      *)
C19_ReturnedRecordValid ==
    \A p \in Procs :
        (Done(p, "credentials") /\ call[p].result.kind = "return")
        => \A x \in call[p].result.ret : now < x.expires_at

(* C20: both steps of a get_hubspot_credentials call with an explicit       *)
(* hub_domain leave every entry under another key as it was, add and remove *)
(* no key, and write to no key but the one of that hub_domain.              *)
C20_OtherTenantsUntouched ==
    [][\A p \in Procs :
        (/\ Starts(p, "credentials") \/ Answered(p, "refresh")
         /\ Truthy(call'[p].hub_domain))
        => /\ WrittenKeys(call'[p]) \subseteq {TokenKey(call'[p].hub_domain)}
           /\ DOMAIN redis' = DOMAIN redis
           /\ \A k \in DOMAIN redis :
                k # TokenKey(call'[p].hub_domain) => redis'[k] = redis[k]
    ]_vars

(* a call for acme has refreshed and stored the record of acme while the    *)
(* record under "unknown" is the one that was there at the start            *)
C20_Witness ==
    \E p \in Procs :
        /\ Done(p, "credentials")
        /\ call[p].hub_domain = "acme"
        /\ IssuerOk(call[p])
        /\ call[p].writes # <<>>
        /\ Stored(redis, TokenKey("acme")).access_token = AccessToken(1)
        /\ TokenKey(DefaultHubDomain) \in DOMAIN redis
        /\ Stored(redis, TokenKey(DefaultHubDomain)).access_token = AccessToken(0 - 1)
====
